---- MODULE Spec2Model ----
(***************************************************************************)
(* Model of pyfomod/parser.py: the FomodElement low-level API.             *)
(*                                                                         *)
(* The live document is a heap of lxml nodes (elements and comments) with  *)
(* ordered child lists and parent links.  The schema is an immutable XML   *)
(* tree; a schema node is referred to by its path (the child indexes from  *)
(* the schema root), which gives the identity that the code compares with  *)
(* "is".  The validation engine (etree.XMLSchema) is an external           *)
(* collaborator; it is modelled by the XSD content-model semantics of the  *)
(* schema fragment it is handed.                                           *)
(***************************************************************************)
EXTENDS Integers, Sequences, FiniteSets, TLC

(***************************************************************************)
(* Bounds                                                                  *)
(***************************************************************************)
\* number of lxml nodes (elements and comments) that can ever be created
MaxNodes == 4

\* number of editing calls (add_child, comment setter) in one run
MaxEdits == 2

Nodes == 1..MaxNodes

\* tags a caller passes to the API; "z" is declared nowhere in the schema
Tags == {"a", "b", "c", "z"}

\* comment texts a caller passes to the comment setter
Texts == {"t"}

\* attribute names a caller passes; "q" is declared nowhere in the schema
\* (as the schema location hint that a document carries on its root)
AttrNames == {"d", "i", "e", "q"}

\* attribute values a caller passes: the one enumerated value, a number and
\* a word that is neither
AttrValues == {"x", "7", "boop"}

(***************************************************************************)
(* Python values                                                           *)
(***************************************************************************)
None == [py |-> "None"]
True == [py |-> "bool", b |-> TRUE]
False == [py |-> "bool", b |-> FALSE]
PyBool(v) == IF v THEN True ELSE False
PyInt(n) == [py |-> "int", i |-> n]
PyStr(s) == [py |-> "str", s |-> s]
Raise(e) == [py |-> "raise", exc |-> e]
IsRaise(v) == v.py = "raise"

\* int(str) on the occurrence attributes of the schema
int(s) ==
    CASE s = "0" -> 0
      [] s = "1" -> 1
      [] s = "2" -> 2
      [] s = "3" -> 3
      [] s = "4" -> 4
      [] s = "5" -> 5

(***************************************************************************)
(* The schema (pyfomod.FOMOD_SCHEMA_TREE), an XML tree of records.         *)
(*   r     : sequence{ a(0..unbounded) : aType, b(1..1), c(0..1) }         *)
(*           attributes d : xs:string default "1.0", i : xs:integer,       *)
(*           e : restriction of xs:string to the enumeration {"x"}         *)
(*   r/b   : sequence{ c(0..2), b(0..1) }                                  *)
(*   aType : choice(0..1){ b, c }                                          *)
(*   y     : sequence{ choice(0..unbounded){ a, b }, sequence(0..1){ c } } *)
(*   g     : group ref G,  G = sequence{ b, choice{ a } }                  *)
(***************************************************************************)
XsLeaf(n, minOcc, maxOcc) ==
    [xs |-> "element", name |-> n, type |-> "xs:string",
     minOccurs |-> minOcc, maxOccurs |-> maxOcc, kids |-> <<>>]

FOMOD_SCHEMA_TREE ==
    [xs |-> "schema", kids |-> <<
        [xs |-> "element", name |-> "r", kids |-> <<
            [xs |-> "complexType", kids |-> <<
                [xs |-> "sequence", kids |-> <<
                    [xs |-> "element", name |-> "a", type |-> "aType",
                     minOccurs |-> "0", maxOccurs |-> "unbounded",
                     kids |-> <<>>],
                    [xs |-> "element", name |-> "b", kids |-> <<
                        [xs |-> "complexType", kids |-> <<
                            [xs |-> "sequence", kids |-> <<
                                XsLeaf("c", "0", "2"),
                                XsLeaf("b", "0", "1") >>] >>] >>],
                    [xs |-> "element", name |-> "c", type |-> "xs:string",
                     minOccurs |-> "0", kids |-> <<>>] >>],
                [xs |-> "attribute", name |-> "d", type |-> "xs:string",
                 default |-> "1.0", kids |-> <<>>],
                [xs |-> "attribute", name |-> "i", type |-> "xs:integer",
                 kids |-> <<>>],
                [xs |-> "attribute", name |-> "e", kids |-> <<
                    [xs |-> "simpleType", kids |-> <<
                        [xs |-> "restriction", base |-> "xs:string",
                         kids |-> <<
                            [xs |-> "enumeration", value |-> "x",
                             kids |-> <<>>] >>] >>] >>] >>] >>],
        [xs |-> "complexType", name |-> "aType", kids |-> <<
            [xs |-> "choice", minOccurs |-> "0", kids |-> <<
                [xs |-> "element", name |-> "b", type |-> "xs:string",
                 kids |-> <<>>],
                [xs |-> "element", name |-> "c", type |-> "xs:string",
                 kids |-> <<>>] >>] >>],
        [xs |-> "element", name |-> "y", kids |-> <<
            [xs |-> "complexType", kids |-> <<
                [xs |-> "sequence", kids |-> <<
                    [xs |-> "choice", minOccurs |-> "0",
                     maxOccurs |-> "unbounded",
                     kids |-> <<XsLeaf("a", "1", "1"),
                                XsLeaf("b", "1", "1")>>],
                    [xs |-> "sequence", minOccurs |-> "0", kids |-> <<
                        XsLeaf("c", "1", "1")>>] >>] >>] >>],
        [xs |-> "element", name |-> "g", kids |-> <<
            [xs |-> "complexType", kids |-> <<
                [xs |-> "group", ref |-> "G", kids |-> <<>>] >>] >>],
        [xs |-> "group", name |-> "G", kids |-> <<
            [xs |-> "sequence", kids |-> <<
                XsLeaf("b", "1", "1"),
                [xs |-> "choice", kids |-> <<XsLeaf("a", "1", "1")>>] >>] >>]
        >>]

\* element.get(attr, default)
Get(e, attr, default) == IF attr \in DOMAIN e THEN e[attr] ELSE default
Has(e, attr) == attr \in DOMAIN e

\* the schema node at a path; <<>> is the schema root
RECURSIVE NodeAt(_, _)
NodeAt(e, path) ==
    IF path = <<>> THEN e ELSE NodeAt(e.kids[Head(path)], Tail(path))

SchemaAt(path) == NodeAt(FOMOD_SCHEMA_TREE, path)

\* the "no schema node" reference (find() returning None)
NoPath == <<0>>

OrderNames == {"all", "sequence", "choice"}

\* indexes of the direct children of e selected by a predicate on the child
KidsWhere(e, P(_)) == {k \in 1..Len(e.kids) : P(e.kids[k])}
Min(S) == CHOOSE m \in S : \A o \in S : m <= o
Max(S) == CHOOSE m \in S : \A o \in S : m >= o

\* ascending sequence of a finite set of integers
RECURSIVE SortedSeq(_)
SortedSeq(S) ==
    IF S = {} THEN <<>> ELSE <<Min(S)>> \o SortedSeq(S \ {Min(S)})

(***************************************************************************)
(* The validation engine: etree.XMLSchema(schema_elem).validate(doc).      *)
(* doc is a skeleton [tag, kids] whose kids are bare tags.  A particle is  *)
(* matched against the child tags from position i; the result is the set   *)
(* of positions at which the match can end.                                *)
(***************************************************************************)
BuiltinTypes == {"xs:string", "xs:integer", "xs:boolean"}

\* type.startswith('xs:')
IsBuiltin(t) == t \in BuiltinTypes

MinOccursOf(p) == IF Has(p, "minOccurs") THEN int(p.minOccurs) ELSE 1

\* the largest number of occurrences worth trying on a tag sequence s
MaxOccursOf(p, s) ==
    IF ~Has(p, "maxOccurs") THEN 1
    ELSE IF p.maxOccurs = "unbounded" THEN Max({MinOccursOf(p), Len(s)})
    ELSE int(p.maxOccurs)

\* xs:all : every tag at most once, every required member present
AllEnds(p, s, i) ==
    {j \in i..(Len(s) + 1) :
        /\ \A k \in i..(j - 1) :
              /\ \E m \in 1..Len(p.kids) : p.kids[m].name = s[k]
              /\ \A k2 \in i..(j - 1) : s[k2] = s[k] => k2 = k
        /\ \A m \in 1..Len(p.kids) :
              MinOccursOf(p.kids[m]) > 0 =>
                  \E k \in i..(j - 1) : s[k] = p.kids[m].name}

RECURSIVE MatchTerm(_, _, _), MatchParticle(_, _, _)
RECURSIVE MatchMembers(_, _, _, _), MatchRepeat(_, _, _, _, _)

\* one occurrence of the particle p, starting at position i
MatchTerm(p, s, i) ==
    CASE p.xs = "element" ->
            IF i <= Len(s) /\ s[i] = p.name THEN {i + 1} ELSE {}
      [] p.xs = "sequence" -> MatchMembers(p.kids, 1, s, {i})
      [] p.xs = "choice" ->
            UNION {MatchParticle(p.kids[m], s, i) : m \in 1..Len(p.kids)}
      [] p.xs = "all" -> AllEnds(p, s, i)
      [] OTHER -> {}

\* the members of a sequence from member m on, from any position of from
MatchMembers(kids, m, s, from) ==
    IF m > Len(kids) THEN from
    ELSE MatchMembers(kids, m + 1, s,
             UNION {MatchParticle(kids[m], s, j) : j \in from})

\* ends after exactly k more occurrences from the positions of from, for
\* every count that lies within lo..hi
MatchRepeat(p, s, from, done, hi) ==
    LET here == IF done >= MinOccursOf(p) THEN from ELSE {}
    IN  IF done >= hi \/ from = {} THEN here
        ELSE here \cup MatchRepeat(p, s,
                 UNION {MatchTerm(p, s, j) : j \in from}, done + 1, hi)

\* minOccurs..maxOccurs occurrences of the particle p from position i
MatchParticle(p, s, i) == MatchRepeat(p, s, {i}, 0, MaxOccursOf(p, s))

\* the particle (order indicator) of a complex type, or <<>> when it has none
ContentParticle(ctype) ==
    LET ords == KidsWhere(ctype, LAMBDA k : k.xs \in OrderNames)
    IN  IF ords = {} THEN <<>> ELSE <<ctype.kids[Min(ords)]>>

\* is the child-tag sequence s accepted by the complex type ctype
ContentAccepts(ctype, s) ==
    LET part == ContentParticle(ctype)
    IN  IF part = <<>> THEN s = <<>>
        ELSE (Len(s) + 1) \in MatchParticle(part[1], s, 1)

\* is the child-tag sequence s accepted by the declaration decl whose named
\* types are looked up among the children of the schema root
DeclAccepts(root, decl, s) ==
    IF Has(decl, "type")
    THEN IF IsBuiltin(decl.type) THEN s = <<>>
         ELSE LET named == KidsWhere(root,
                      LAMBDA k : k.xs = "complexType" /\ Has(k, "name")
                                 /\ k.name = decl.type)
              IN  named # {} /\ ContentAccepts(root.kids[Min(named)], s)
    ELSE LET inline == KidsWhere(decl, LAMBDA k : k.xs = "complexType")
         IN  inline = {} \/ ContentAccepts(decl.kids[Min(inline)], s)

\* schema.validate(doc) for schema = etree.XMLSchema(schema_elem)
validate(schema_elem, doc) ==
    LET globals == KidsWhere(schema_elem,
                      LAMBDA k : k.xs = "element" /\ k.name = doc.tag)
    IN  /\ globals # {}
        /\ DeclAccepts(schema_elem, schema_elem.kids[Min(globals)], doc.kids)

(***************************************************************************)
(* lxml child lists.  Items of a list are pairwise distinct.               *)
(***************************************************************************)
\* 1-based position of x in seq, 0 when absent
IndexOf(seq, x) ==
    IF \E k \in 1..Len(seq) : seq[k] = x
    THEN CHOOSE k \in 1..Len(seq) : seq[k] = x
    ELSE 0

Contains(seq, x) == IndexOf(seq, x) # 0

Remove(seq, x) == SelectSeq(seq, LAMBDA y : y # x)

\* lxml _findChild: the 1-based position designated by a Python index
\* (negative indexes count from the end), 0 when there is no such child
FindChild(seq, index) ==
    IF index >= 0 /\ index < Len(seq) THEN index + 1
    ELSE IF index < 0 /\ -index <= Len(seq) THEN Len(seq) + index + 1
    ELSE 0

\* lxml parent.insert(index, x) on the child list seq of parent: the child
\* now designated by index is found first, then x is unlinked from wherever
\* it is and linked in front of that child; without such a child x is
\* appended; when x is itself that child nothing moves
insert(seq, index, x) ==
    LET p == FindChild(seq, index)
    IN  IF p = 0 THEN Append(Remove(seq, x), x)
        ELSE IF seq[p] = x THEN seq
        ELSE LET rest == Remove(seq, x)
                 q == IndexOf(rest, seq[p])
             IN  SubSeq(rest, 1, q - 1) \o <<x>> \o SubSeq(rest, q, Len(rest))

(***************************************************************************)
(* State: the heap of lxml nodes and the record of the last API call.      *)
(***************************************************************************)
VARIABLES
    kind,            \* node -> "free" | "element" | "comment"
    tag,             \* node -> its tag ("" when free, CommentTag for comments)
    children,        \* node -> the ordered list of its child nodes
    parent,          \* node -> getparent(), 0 for None
    comment,         \* node -> self._comment, 0 for None
    text,            \* node -> the text of a comment node
    schema_element,  \* node -> self._schema_element, a schema path
    schema_type,     \* node -> self._schema_type, a schema path
    attrib,          \* node -> self.attrib: attribute name -> value or None
    order_in,        \* the schema handed to the content-model parser
    last,            \* the last API call: operation, arguments, outcome
    edits            \* the number of editing calls made so far

tree == <<kind, tag, children, parent, comment, text,
          schema_element, schema_type, attrib>>
vars == <<kind, tag, children, parent, comment, text,
          schema_element, schema_type, attrib, order_in, last, edits>>

\* the .tag of a comment node is the etree.Comment factory, not a string
CommentTag == "<Comment>"

Elements == {n \in Nodes : kind[n] = "element"}
Free == {n \in Nodes : kind[n] = "free"}

\* arguments a caller can pass where a tag or a node is expected
StrArg(t) == [is |-> "str", tag |-> t]
NodeArg(n) == [is |-> "FomodElement", id |-> n]
OtherArg == [is |-> "other"]
IsStr(arg) == arg.is = "str"
IsFomodElement(arg) == arg.is = "FomodElement"
NodeArgs == {NodeArg(n) : n \in Elements} \cup {OtherArg}
TagArgs == {StrArg(t) : t \in Tags}

\* list(self.iterancestors())[::-1] + [self], as tags
RECURSIVE AncestorTags(_)
AncestorTags(n) ==
    IF parent[n] = 0 THEN <<tag[n]>>
    ELSE Append(AncestorTags(parent[n]), tag[n])

RECURSIVE IsAncestorOrSame(_, _)
IsAncestorOrSame(a, n) ==
    \/ a = n
    \/ parent[n] # 0 /\ IsAncestorOrSame(a, parent[n])

\* the tags of a list of nodes
TagsOf(seq) == [k \in 1..Len(seq) |-> tag[seq[k]]]

(***************************************************************************)
(* Schema lookup (_lookup_element, _init)                                  *)
(***************************************************************************)
\* path.find(...): the first direct child of the schema node at path that
\* satisfies P, NoPath when there is none
FindKid(path, P(_)) ==
    LET hits == KidsWhere(SchemaAt(path), P)
    IN  IF hits = {} THEN NoPath ELSE Append(path, Min(hits))

\* path.xpath("xs:all | xs:sequence | xs:choice"): direct children that are
\* order indicators, in document order
OrderKids(path) ==
    LET hits == KidsWhere(SchemaAt(path), LAMBDA k : k.xs \in OrderNames)
        order == SortedSeq(hits)
    IN  [k \in 1..Len(order) |-> Append(path, order[k])]

\* current_element.find("element[@name=tag]")
FindElementDecl(path, t) ==
    FindKid(path, LAMBDA k : k.xs = "element" /\ Has(k, "name") /\ k.name = t)

\* _get_order_from_group(group_elem, root_elem)
_get_order_from_group(group_path) ==
    LET ref == Get(SchemaAt(group_path), "ref", "")
        group_ref == FindKid(<<>>, LAMBDA k : k.xs = "group"
                                 /\ Has(k, "name") /\ k.name = ref)
    IN  IF group_ref = NoPath THEN Raise("AttributeError")
        ELSE IF OrderKids(group_ref) = <<>> THEN Raise("IndexError")
        ELSE [py |-> "path", path |-> OrderKids(group_ref)[1]]

\* the while loop of _lookup_element: only first[0] is searched at each
\* nesting level
RECURSIVE OrderSearch(_, _)
OrderSearch(first, t) ==
    IF first = <<>> THEN NoPath
    ELSE LET holder == FindElementDecl(first[1], t)
         IN  IF holder # NoPath THEN holder
             ELSE OrderSearch(OrderKids(first[1]), t)

\* the holder declaration named t in the scope current (body of the for
\* loop of _lookup_element up to the type resolution)
FindHolder(current, t) ==
    LET direct == FindElementDecl(current, t)
        group_elem == FindKid(current, LAMBDA k : k.xs = "group")
    IN  IF direct # NoPath THEN [py |-> "path", path |-> direct]
        ELSE IF group_elem # NoPath
        THEN LET ord == _get_order_from_group(group_elem)
             IN  IF IsRaise(ord) THEN ord
                 ELSE [py |-> "path", path |-> OrderSearch(<<ord.path>>, t)]
        ELSE [py |-> "path", path |-> OrderSearch(OrderKids(current), t)]

\* the scope that follows the holder declaration
NextScope(holder) ==
    LET h == SchemaAt(holder)
    IN  IF ~Has(h, "type")
        THEN FindKid(holder, LAMBDA k : k.xs = "complexType")
        ELSE IF IsBuiltin(h.type) THEN holder
        ELSE FindKid(<<>>, LAMBDA k : k.xs = "complexType"
                              /\ Has(k, "name") /\ k.name = h.type)

RECURSIVE LookupFrom(_, _, _, _)
LookupFrom(chain, k, current, holder) ==
    IF k > Len(chain)
    THEN [py |-> "tuple", holder |-> holder, type |-> current]
    ELSE IF current = NoPath THEN Raise("AttributeError")
    ELSE LET found == FindHolder(current, chain[k])
         IN  IF IsRaise(found) THEN found
             ELSE IF found.path = NoPath THEN Raise("AttributeError")
             ELSE LookupFrom(chain, k + 1, NextScope(found.path), found.path)

\* self._lookup_element() for a node whose ancestor tags, root first and
\* itself last, are chain
_lookup_element(chain) == LookupFrom(chain, 1, <<>>, NoPath)

(***************************************************************************)
(* Trial validation (_setup_shallow_schema_and_self, _find_possible_index) *)
(***************************************************************************)
\* a nested element declaration stripped of its type and of its children
RECURSIVE Pruned(_, _)
Pruned(e, top) ==
    IF e.xs = "element" /\ ~top
    THEN [f \in (DOMAIN e) \ {"type"} |->
             IF f = "kids" THEN <<>> ELSE e[f]]
    ELSE [f \in DOMAIN e |->
             IF f = "kids"
             THEN [k \in 1..Len(e.kids) |-> Pruned(e.kids[k], FALSE)]
             ELSE e[f]]

\* the schema fragment of _setup_shallow_schema_and_self: the holder
\* declaration and, when the holder names its type, the content type, with
\* the element declarations nested in the last copy pruned
ShallowSchema(n) ==
    LET holder == SchemaAt(schema_element[n])
        same == schema_element[n] = schema_type[n]
        holder_copy == IF Has(holder, "type") THEN holder
                       ELSE Pruned(holder, TRUE)
        type_copy == IF same THEN SchemaAt(schema_type[n])
                     ELSE Pruned(SchemaAt(schema_type[n]), TRUE)
    IN  [xs |-> "schema",
         kids |-> IF Has(holder, "type") THEN <<holder_copy, type_copy>>
                  ELSE <<holder_copy>>]

\* self._setup_shallow_schema_and_self(): the schema fragment and the
\* skeleton of bare elements.  It raises on a node that has no schema
\* binding, and building the skeleton raises when a child is a comment,
\* whose tag is not a string.  A skeleton child is [id, tag] with id its
\* position at construction.
_setup_shallow_schema_and_self(n) ==
    LET kids == children[n]
    IN  IF schema_element[n] = NoPath THEN Raise("AttributeError")
        ELSE IF \E k \in 1..Len(kids) : tag[kids[k]] = CommentTag
        THEN Raise("TypeError")
        ELSE [py |-> "tuple",
              schema_elem |-> ShallowSchema(n),
              self_copy |-> [tag |-> tag[n],
                             kids |-> [k \in 1..Len(kids) |->
                                          [id |-> k, tag |-> tag[kids[k]]]]]]

\* the skeleton as the validation engine sees it: tags only
Bare(self_copy) ==
    [tag |-> self_copy.tag,
     kids |-> [k \in 1..Len(self_copy.kids) |-> self_copy.kids[k].tag]]

\* the for loop of _find_possible_index from Python index `index` down to 0;
\* kids is the skeleton's child list with the test element in it
RECURSIVE FindIndexLoop(_, _, _, _, _)
FindIndexLoop(schema_elem, root_tag, kids, test_elem, index) ==
    IF index < 0 THEN None
    ELSE LET moved == insert(kids, index, test_elem)
         IN  IF validate(schema_elem,
                         Bare([tag |-> root_tag, kids |-> moved]))
             THEN PyInt(index)
             ELSE FindIndexLoop(schema_elem, root_tag, moved, test_elem,
                                index - 1)

\* self._find_possible_index(tag): -1 to append, an index, None, or raises
_find_possible_index(n, t) ==
    LET setup == _setup_shallow_schema_and_self(n)
    IN  IF IsRaise(setup) THEN setup
        ELSE LET test_elem == [id |-> 0, tag |-> t]
                 appended == Append(setup.self_copy.kids, test_elem)
             IN  IF validate(setup.schema_elem,
                             Bare([tag |-> tag[n], kids |-> appended]))
                 THEN PyInt(-1)
                 ELSE FindIndexLoop(setup.schema_elem, tag[n], appended,
                                    test_elem, Len(appended) - 1)

(***************************************************************************)
(* The can_* queries, as the values they return or the errors they raise.  *)
(***************************************************************************)
\* child in self (lxml __contains__): a node whose parent is self
In(s, arg) == IsFomodElement(arg) /\ parent[arg.id] = s

\* self.can_add_child(child)
can_add_child(s, child) ==
    IF ~IsStr(child) /\ ~IsFomodElement(child) THEN Raise("TypeError")
    ELSE LET t == IF IsStr(child) THEN child.tag ELSE tag[child.id]
             index == _find_possible_index(s, t)
         IN  IF IsRaise(index) THEN index
             ELSE IF index = None THEN False
             ELSE True

\* self.can_remove_child(child)
can_remove_child(s, child) ==
    IF ~IsFomodElement(child) THEN Raise("TypeError")
    ELSE IF ~In(s, child) THEN Raise("ValueError")
    ELSE LET index == IndexOf(children[s], child.id)
             setup == _setup_shallow_schema_and_self(s)
         IN  IF IsRaise(setup) THEN setup
             ELSE LET kids == setup.self_copy.kids
                      removed == Remove(kids, kids[index])
                  IN  PyBool(validate(setup.schema_elem,
                                 Bare([tag |-> tag[s], kids |-> removed])))

\* self.can_replace_child(old_child, new_child)
can_replace_child(s, old_child, new_child) ==
    IF ~(IsFomodElement(old_child) \/ IsFomodElement(new_child))
    THEN Raise("TypeError")
    ELSE IF ~In(s, old_child) \/ ~In(s, new_child) THEN Raise("ValueError")
    ELSE LET index == IndexOf(children[s], old_child.id)
             setup == _setup_shallow_schema_and_self(s)
         IN  IF IsRaise(setup) THEN setup
             ELSE LET kids == setup.self_copy.kids
                      replaced == [kids EXCEPT ![index] =
                                      [id |-> 0, tag |-> tag[new_child.id]]]
                  IN  PyBool(validate(setup.schema_elem,
                                 Bare([tag |-> tag[s], kids |-> replaced])))

\* self.can_copy_child(child, new_parent)
can_copy_child(s, child, new_parent) ==
    IF ~(IsFomodElement(child) \/ IsFomodElement(new_parent))
    THEN Raise("TypeError")
    ELSE IF ~In(s, child) THEN Raise("ValueError")
    ELSE IF ~IsFomodElement(new_parent) THEN Raise("AttributeError")
    ELSE can_add_child(new_parent.id, child)

\* a can_move_child that leaves out the removal from the source
can_move_child_without_removal(s, child, new_parent) ==
    can_copy_child(s, child, new_parent)

\* self.can_move_child(child, new_parent)
can_move_child(s, child, new_parent) ==
    IF ~(IsFomodElement(child) \/ IsFomodElement(new_parent))
    THEN Raise("TypeError")
    ELSE IF ~In(s, child) THEN Raise("ValueError")
    ELSE IF ~IsFomodElement(new_parent) THEN Raise("AttributeError")
    ELSE LET added == can_add_child(new_parent.id, child)
         IN  IF IsRaise(added) \/ added = False THEN added
             ELSE can_remove_child(s, child)

(***************************************************************************)
(* Operations                                                              *)
(***************************************************************************)
\* the record of a call: the operation, the kind of its arguments and what
\* it returned or raised
Call(op, kinds, res) == [op |-> op, kinds |-> kinds, result |-> res]

\* the operations that edit the tree, and the parse that built it
EditOps == {"parse", "add_child", "comment.setter"}

\* the can_* queries
CanOps == {"can_add_child", "can_remove_child", "can_replace_child",
           "can_copy_child", "can_move_child"}

\* The caller inspects the tree that the parse or an edit has produced.  A
\* query records its outcome and nothing else, so a second query in a row
\* would be the same call on the same tree.
Inspecting == last.op \in EditOps

\* the kinds of two node arguments: "FomodElement" when both are nodes
Kinds(a1, a2) ==
    IF IsFomodElement(a1) /\ IsFomodElement(a2) THEN "FomodElement"
    ELSE "other"

\* the node a SubElement call creates
NewNode == Min(Free)

\* self._init() of a node created as the last child of s with tag t: the
\* schema binding, or the error of the lookup
InitBinding(s, t) == _lookup_element(Append(AncestorTags(s), t))

\* self.getprevious() of the last item of a child list, as self._comment
PreviousComment(seq) ==
    IF seq # <<>> /\ tag[seq[Len(seq)]] = CommentTag THEN seq[Len(seq)] ELSE 0

\* add_child with a tag: etree.SubElement(self, tag), then
\* self.insert(index, child)
AddTag(s, t, index) ==
    LET m == NewNode
        lookup == InitBinding(s, t)
        sub == Append(children[s], m)
    IN  /\ kind' = [kind EXCEPT ![m] = "element"]
        /\ tag' = [tag EXCEPT ![m] = t]
        /\ parent' = [parent EXCEPT ![m] = s]
        /\ text' = text
        /\ IF IsRaise(lookup)
           THEN /\ children' = [children EXCEPT ![s] = sub]
                /\ UNCHANGED <<comment, schema_element, schema_type, attrib>>
                /\ last' = Call("add_child", "str", lookup)
           ELSE /\ children' = [children EXCEPT ![s] = insert(sub, index.i, m)]
                /\ comment' = [comment EXCEPT ![m] =
                                  PreviousComment(children[s])]
                /\ schema_element' = [schema_element EXCEPT ![m] =
                                         lookup.holder]
                /\ schema_type' = [schema_type EXCEPT ![m] = lookup.type]
                /\ attrib' = attrib
                /\ last' = Call("add_child", "str", None)

\* add_child with a node: self.insert(index, child) unlinks the node from
\* its current parent and links it under self
AddNode(s, c, index) ==
    LET old == parent[c]
        unlinked == IF old # 0 /\ old # s
                    THEN [children EXCEPT ![old] = Remove(@, c)]
                    ELSE children
    IN  /\ children' = [unlinked EXCEPT ![s] = insert(@, index.i, c)]
        /\ parent' = [parent EXCEPT ![c] = s]
        /\ UNCHANGED <<kind, tag, comment, text, schema_element, schema_type,
                       attrib>>
        /\ last' = Call("add_child", "FomodElement", None)

\* self.add_child(child)
add_child(s, child) ==
    /\ s \in Elements
    /\ edits < MaxEdits
    /\ edits' = edits + 1
    /\ IsStr(child) => Free # {}
    /\ IsFomodElement(child) => ~IsAncestorOrSame(child.id, s)
    /\ IF ~IsStr(child) /\ ~IsFomodElement(child)
       THEN /\ last' = Call("add_child", child.is, Raise("TypeError"))
            /\ UNCHANGED tree
       ELSE LET t == IF IsStr(child) THEN child.tag ELSE tag[child.id]
                index == _find_possible_index(s, t)
            IN  IF IsRaise(index)
                THEN /\ last' = Call("add_child", child.is, index)
                     /\ UNCHANGED tree
                ELSE IF index = None
                THEN /\ last' = Call("add_child", child.is,
                                     Raise("ValueError"))
                     /\ UNCHANGED tree
                ELSE IF IsStr(child) THEN AddTag(s, t, index)
                ELSE AddNode(s, child.id, index)

\* a direct call of self._find_possible_index(tag)
Call_find_possible_index(s, t) ==
    /\ Inspecting
    /\ s \in Elements
    /\ last' = Call("_find_possible_index", "str",
                    _find_possible_index(s, t))
    /\ UNCHANGED <<tree, edits>>

Call_can_add_child(s, child) ==
    /\ Inspecting
    /\ s \in Elements
    /\ last' = Call("can_add_child", child.is, can_add_child(s, child))
    /\ UNCHANGED <<tree, edits>>

\* a can_remove_child that tries the removal on the element itself instead
\* of on its skeleton
Call_can_remove_child_on_self(s, child) ==
    /\ Inspecting
    /\ s \in Elements
    /\ last' = Call("can_remove_child", child.is,
                    can_remove_child(s, child))
    /\ children' = IF IsFomodElement(child) /\ In(s, child)
                   THEN [children EXCEPT ![s] = Remove(@, child.id)]
                   ELSE children
    /\ UNCHANGED <<kind, tag, parent, comment, text, schema_element,
                   schema_type, attrib, edits>>

Call_can_remove_child(s, child) ==
    /\ Inspecting
    /\ s \in Elements
    /\ last' = Call("can_remove_child", child.is,
                    can_remove_child(s, child))
    /\ UNCHANGED <<tree, edits>>

Call_can_replace_child(s, old_child, new_child) ==
    /\ Inspecting
    /\ s \in Elements
    /\ last' = Call("can_replace_child", Kinds(old_child, new_child),
                    can_replace_child(s, old_child, new_child))
    /\ UNCHANGED <<tree, edits>>

Call_can_copy_child(s, child, new_parent) ==
    /\ Inspecting
    /\ s \in Elements
    /\ last' = Call("can_copy_child", Kinds(child, new_parent),
                    can_copy_child(s, child, new_parent))
    /\ UNCHANGED <<tree, edits>>

Call_can_move_child(s, child, new_parent) ==
    /\ Inspecting
    /\ s \in Elements
    /\ last' = Call("can_move_child", Kinds(child, new_parent),
                    can_move_child(s, child, new_parent))
    /\ UNCHANGED <<tree, edits>>

\* the values a caller assigns to the comment property
TextArgs == {PyStr(t) : t \in Texts} \cup {None}

\* the text lxml stores in a comment for an assigned value: etree.Comment(None)
\* and comment.text = None both leave the empty text
CommentText(t) == IF t = None THEN "" ELSE t.s

\* the comment getter: self.comment
comment_get(n) == IF comment[n] = 0 THEN "" ELSE text[comment[n]]

\* a comment setter that links the new comment after the node
\* (addnext in the place of addprevious)
set_comment_addnext(n, t) ==
    /\ n \in Elements
    /\ edits < MaxEdits
    /\ edits' = edits + 1
    /\ parent[n] # 0
    /\ IF comment[n] = 0
       THEN /\ Free # {}
            /\ LET m == NewNode
                   p == parent[n]
                   at == IndexOf(children[p], n)
               IN  /\ kind' = [kind EXCEPT ![m] = "comment"]
                   /\ tag' = [tag EXCEPT ![m] = CommentTag]
                   /\ text' = [text EXCEPT ![m] = CommentText(t)]
                   /\ parent' = [parent EXCEPT ![m] = p]
                   /\ children' = [children EXCEPT ![p] =
                          SubSeq(@, 1, at) \o <<m>>
                              \o SubSeq(@, at + 1, Len(@))]
                   /\ comment' = [comment EXCEPT ![n] = m]
                   /\ UNCHANGED <<schema_element, schema_type, attrib>>
       ELSE /\ text' = [text EXCEPT ![comment[n]] = CommentText(t)]
            /\ UNCHANGED <<kind, tag, children, parent, comment,
                           schema_element, schema_type, attrib>>
    /\ last' = Call("comment.setter", t.py, None)

\* the comment setter: self.comment = t, for a node that has a parent
set_comment(n, t) ==
    /\ n \in Elements
    /\ edits < MaxEdits
    /\ edits' = edits + 1
    /\ parent[n] # 0
    /\ IF comment[n] = 0
       THEN /\ Free # {}
            /\ LET m == NewNode
                   p == parent[n]
                   at == IndexOf(children[p], n)
               IN  /\ kind' = [kind EXCEPT ![m] = "comment"]
                   /\ tag' = [tag EXCEPT ![m] = CommentTag]
                   /\ text' = [text EXCEPT ![m] = CommentText(t)]
                   /\ parent' = [parent EXCEPT ![m] = p]
                   /\ children' = [children EXCEPT ![p] =
                          SubSeq(@, 1, at - 1) \o <<m>>
                              \o SubSeq(@, at, Len(@))]
                   /\ comment' = [comment EXCEPT ![n] = m]
                   /\ UNCHANGED <<schema_element, schema_type, attrib>>
       ELSE /\ text' = [text EXCEPT ![comment[n]] = CommentText(t)]
            /\ UNCHANGED <<kind, tag, children, parent, comment,
                           schema_element, schema_type, attrib>>
    /\ last' = Call("comment.setter", t.py, None)

(***************************************************************************)
(* Attributes (valid_attributes, get_attribute, set_attribute)             *)
(***************************************************************************)
PyList(items) == [py |-> "list", items |-> items]

\* e.findall(tag) / e.xpath(tag): the direct children of a schema node whose
\* tag is one of names, in document order
KidsNamed(e, names) == SelectSeq(e.kids, LAMBDA k : k.xs \in names)

RECURSIVE Flatten(_)
Flatten(seqs) ==
    IF seqs = <<>> THEN <<>> ELSE Head(seqs) \o Flatten(Tail(seqs))

\* attr_list of valid_attributes: the attribute declarations directly under
\* the type and, when there are none, those under its simpleContent
\* extension or restriction
AttrList(type_elem) ==
    LET direct == KidsNamed(type_elem, {"attribute"})
        contents == KidsNamed(type_elem, {"simpleContent"})
        derived == Flatten([k \in 1..Len(contents) |->
                      KidsNamed(contents[k], {"extension", "restriction"})])
    IN  IF direct # <<>> THEN direct
        ELSE Flatten([k \in 1..Len(derived) |->
                 KidsNamed(derived[k], {"attribute"})])

\* name[3:] of a type name that starts with 'xs:'
StripXs(t) ==
    CASE t = "xs:string" -> "string"
      [] t = "xs:integer" -> "integer"
      [] t = "xs:boolean" -> "boolean"
      [] OTHER -> ""

\* restriction_element of an attribute declaration that names no builtin
\* type: found under its own simpleType, or under the simpleType of the
\* schema that it names; <<>> when find() returns None
RestrictionOf(attr) ==
    LET holders ==
            IF Has(attr, "type")
            THEN SelectSeq(FOMOD_SCHEMA_TREE.kids,
                     LAMBDA k : k.xs = "simpleType" /\ Has(k, "name")
                                /\ k.name = attr.type)
            ELSE KidsNamed(attr, {"simpleType"})
    IN  Flatten([k \in 1..Len(holders) |->
            KidsNamed(holders[k], {"restriction"})])

\* the _Attribute tuple built for one attribute declaration (body of the
\* for loop of valid_attributes), without the documentation texts
AttributeOf(attr) ==
    LET default == IF Has(attr, "default") THEN PyStr(attr.default) ELSE None
        use == Get(attr, "use", "optional")
        found == RestrictionOf(attr)
        enums == KidsNamed(found[1], {"enumeration"})
    IN  IF Has(attr, "type") /\ IsBuiltin(attr.type)
        THEN [py |-> "_Attribute", name |-> attr.name, default |-> default,
              type |-> StripXs(attr.type), use |-> use, restriction |-> None]
        ELSE IF found = <<>> THEN Raise("AttributeError")
        ELSE [py |-> "_Attribute", name |-> attr.name, default |-> default,
              type |-> StripXs(found[1].base), use |-> use,
              restriction |->
                 [py |-> "_AttrRestriction",
                  type |-> IF enums = <<>> THEN "" ELSE "enumeration ",
                  enum_list |-> [k \in 1..Len(enums) |-> enums[k].value]]]

\* self.valid_attributes()
valid_attributes(n) ==
    IF schema_type[n] = NoPath THEN Raise("AttributeError")
    ELSE LET decls == AttrList(SchemaAt(schema_type[n]))
             attrs == [k \in 1..Len(decls) |-> AttributeOf(decls[k])]
         IN  IF \E k \in 1..Len(attrs) : IsRaise(attrs[k])
             THEN Raise("AttributeError")
             ELSE PyList(attrs)

\* self._find_valid_attribute(name)
_find_valid_attribute(n, name) ==
    LET valid_attrs == valid_attributes(n)
        hits == {k \in 1..Len(valid_attrs.items) :
                    valid_attrs.items[k].name = name}
    IN  IF IsRaise(valid_attrs) THEN valid_attrs
        ELSE IF hits = {} THEN Raise("ValueError")
        ELSE valid_attrs.items[Min(hits)]

\* self.get_attribute(name)
get_attribute(n, name) ==
    LET existing_attr == attrib[n][name]
        default_attr == _find_valid_attribute(n, name)
    IN  IF existing_attr # None THEN existing_attr
        ELSE IF IsRaise(default_attr) THEN default_attr
        ELSE IF default_attr.default # None THEN default_attr.default
        ELSE PyStr("")

\* a call of self.get_attribute(name); the record of an attribute call
\* holds the attribute name in the place of the argument kinds
Call_get_attribute(n, name) ==
    /\ n \in Elements
    /\ last' = Call("get_attribute", name, get_attribute(n, name))
    /\ UNCHANGED <<tree, order_in, edits>>

\* a set_attribute that does not look at the restriction
set_attribute_unrestricted(n, name, value) ==
    LET possible_attr == _find_valid_attribute(n, name)
    IN  /\ n \in Elements
        /\ IF IsRaise(possible_attr)
           THEN /\ last' = Call("set_attribute", name, possible_attr)
                /\ UNCHANGED tree
           ELSE /\ attrib' = [attrib EXCEPT ![n][name] = PyStr(value)]
                /\ last' = Call("set_attribute", name, None)
                /\ UNCHANGED <<kind, tag, children, parent, comment, text,
                               schema_element, schema_type>>
        /\ UNCHANGED <<order_in, edits>>

\* self.set_attribute(name, value)
set_attribute(n, name, value) ==
    LET possible_attr == _find_valid_attribute(n, name)
        restriction == possible_attr.restriction
    IN  /\ n \in Elements
        /\ IF IsRaise(possible_attr)
           THEN /\ last' = Call("set_attribute", name, possible_attr)
                /\ UNCHANGED tree
           ELSE IF /\ restriction # None
                   /\ restriction.type = "enumeration "
                   /\ \A k \in 1..Len(restriction.enum_list) :
                         restriction.enum_list[k] # value
           THEN /\ last' = Call("set_attribute", name, Raise("ValueError"))
                /\ UNCHANGED tree
           ELSE /\ attrib' = [attrib EXCEPT ![n][name] = PyStr(value)]
                /\ last' = Call("set_attribute", name, None)
                /\ UNCHANGED <<kind, tag, children, parent, comment, text,
                               schema_element, schema_type>>
        /\ UNCHANGED <<order_in, edits>>

(***************************************************************************)
(* The content model of an element: valid_children and required_children.  *)
(* The functions read a schema; they are applied to the small schemas of    *)
(* OrderInputs, whose first element declaration is the bound element.       *)
(***************************************************************************)
\* the _ChildElement and _OrderIndicator named tuples
_ChildElement(t, max_occ, min_occ) ==
    [py |-> "_ChildElement", tag |-> t, max_occ |-> max_occ,
     min_occ |-> min_occ]

_OrderIndicator(type, element_list, max_occ, min_occ) ==
    [py |-> "_OrderIndicator", type |-> type, element_list |-> element_list,
     max_occ |-> max_occ, min_occ |-> min_occ]

\* _element_get_max_occurs(element): None if unbounded
_element_get_max_occurs(element) ==
    LET max_occ == Get(element, "maxOccurs", "1")
    IN  IF max_occ = "unbounded" THEN None ELSE PyInt(int(max_occ))

\* int(element.get('minOccurs', 1))
MinOccOf(element) == PyInt(int(Get(element, "minOccurs", "1")))

\* _get_order_from_group(group_elem, root_elem) on the schema nodes
\* themselves: the first order indicator of the group that is referenced
GroupOrder(group_elem, root_elem) ==
    LET group_ref == SelectSeq(root_elem.kids,
                        LAMBDA k : k.xs = "group" /\ Has(k, "name")
                                   /\ k.name = Get(group_elem, "ref", ""))
    IN  IF group_ref = <<>> THEN Raise("AttributeError")
        ELSE IF KidsNamed(group_ref[1], OrderNames) = <<>>
        THEN Raise("IndexError")
        ELSE KidsNamed(group_ref[1], OrderNames)[1]

\* cls._valid_children_parse_order(ord_elem)
RECURSIVE _valid_children_parse_order(_)
_valid_children_parse_order(ord_elem) ==
    LET found == KidsNamed(ord_elem,
                     {"element", "all", "sequence", "choice"})
        child_list ==
            [k \in 1..Len(found) |->
                IF found[k].xs = "element"
                THEN _ChildElement(
                         IF Has(found[k], "name") THEN PyStr(found[k].name)
                         ELSE None,
                         _element_get_max_occurs(found[k]),
                         MinOccOf(found[k]))
                ELSE _valid_children_parse_order(found[k])]
    IN  _OrderIndicator(ord_elem.xs, child_list,
                        _element_get_max_occurs(ord_elem),
                        MinOccOf(ord_elem))

\* self.valid_children() of a node bound to schema_elem and type_elem in
\* the schema root_elem
valid_children(schema_elem, type_elem, root_elem) ==
    LET found == KidsNamed(type_elem,
                     {"group", "all", "sequence", "choice"})
        first == IF found[1].xs = "group"
                 THEN GroupOrder(found[1], root_elem) ELSE found[1]
    IN  IF type_elem = schema_elem THEN None
        ELSE IF found = <<>> THEN Raise("IndexError")
        ELSE IF Has(first, "py") THEN first
        ELSE IF first.xs \in OrderNames
        THEN _valid_children_parse_order(first)
        ELSE None

\* the last loop of both _required_children functions: every count times
\* the min_occ of the order indicator
TimesMinOcc(req_child, order) ==
    [k \in 1..Len(req_child) |->
        <<req_child[k][1], PyInt(req_child[k][2].i * order.min_occ.i)>>]

RECURSIVE _required_children_choice(_), _required_children_sequence(_)
\* self._required_children_choice(choice)
_required_children_choice(choice) ==
    LET selected_path == choice.element_list[1]
        req_child ==
            IF selected_path.py = "_OrderIndicator"
            THEN IF selected_path.type = "choice"
                 THEN _required_children_choice(selected_path)
                 ELSE _required_children_sequence(selected_path)
            ELSE IF selected_path.min_occ.i > 0
            THEN << <<selected_path.tag, selected_path.min_occ>> >>
            ELSE <<>>
    IN  IF choice.element_list = <<>> THEN <<>>
        ELSE TimesMinOcc(req_child, choice)

\* self._required_children_sequence(sequence)
_required_children_sequence(sequence) ==
    LET of(elem) ==
            IF elem.py = "_OrderIndicator"
            THEN IF elem.type = "choice"
                 THEN _required_children_choice(elem)
                 ELSE _required_children_sequence(elem)
            ELSE IF elem.min_occ.i > 0
            THEN << <<elem.tag, elem.min_occ>> >>
            ELSE <<>>
        req_child == Flatten([k \in 1..Len(sequence.element_list) |->
                                 of(sequence.element_list[k])])
    IN  TimesMinOcc(req_child, sequence)

\* self.required_children()
required_children(schema_elem, type_elem, root_elem) ==
    LET valid == valid_children(schema_elem, type_elem, root_elem)
    IN  IF IsRaise(valid) THEN valid
        ELSE IF valid = None THEN PyList(<<>>)
        ELSE IF valid.type = "choice"
        THEN PyList(_required_children_choice(valid))
        ELSE PyList(_required_children_sequence(valid))

\* the largest number of members of an order indicator of OrderInputs
MaxMembers == 2

\* a schema node with the occurrence attributes that are given ("" = absent)
WithOccurs(e, lo, hi) ==
    LET a == IF lo = "" THEN e ELSE [minOccurs |-> lo] @@ e
    IN  IF hi = "" THEN a ELSE [maxOccurs |-> hi] @@ a

OrderLeaf(t, lo, hi) ==
    WithOccurs([xs |-> "element", name |-> t, type |-> "xs:string",
                kids |-> <<>>], lo, hi)

\* the members of the order indicators of OrderInputs: element
\* declarations, nested order indicators, a wildcard and a reference to the
\* named group "g"
OrderMembers ==
    LET leafs == {OrderLeaf("a", lo, hi) :
                     lo \in {"", "0", "2"}, hi \in {"", "unbounded"}}
                 \cup {OrderLeaf("b", "", "")}
        inner == {<<>>, <<OrderLeaf("a", "", "")>>,
                  <<OrderLeaf("b", "2", "")>>,
                  <<OrderLeaf("a", "", ""), OrderLeaf("b", "2", "")>>}
        nested == {WithOccurs([xs |-> k, kids |-> m], lo, "") :
                      k \in {"choice", "sequence"}, lo \in {"", "0", "2"},
                      m \in inner}
    IN  leafs \cup nested
        \cup {[xs |-> "any", minOccurs |-> "2", maxOccurs |-> "3",
               kids |-> <<>>],
              [xs |-> "group", ref |-> "g", kids |-> <<>>]}

\* what a complexType holds before its attribute: an order indicator, a
\* group reference, or nothing; the order indicators have at most longest
\* members
OrderTops(longest) ==
    {WithOccurs([xs |-> k, kids |-> m], occ[1], occ[2]) :
        k \in OrderNames,
        occ \in {<<"", "">>, <<"0", "unbounded">>, <<"2", "">>},
        m \in UNION {[1..len -> OrderMembers] : len \in 0..longest}}

\* the schemas: element r of a complex type or of a builtin type, and the
\* named group g = all{ c }
OrderInputs(longest) ==
    LET group == [xs |-> "group", name |-> "g", kids |-> <<
                     [xs |-> "all", kids |-> <<OrderLeaf("c", "", "")>>] >>]
        attr == [xs |-> "attribute", name |-> "d", type |-> "xs:string",
                 kids |-> <<>>]
        contents == {<<top, attr>> : top \in OrderTops(longest)}
                    \cup {<<[xs |-> "group", ref |-> "g", kids |-> <<>>],
                            attr>>,
                          <<attr>>}
        complex == {[xs |-> "element", name |-> "r", kids |-> <<
                        [xs |-> "complexType", kids |-> c] >>] :
                       c \in contents}
    IN  {[xs |-> "schema", kids |-> <<e, group>>] :
            e \in complex \cup {OrderLeaf("r", "", "")}}

\* the declaration and the type that _lookup_element binds to the root of
\* a document of the schema order_in
OrderElement == order_in.kids[1]
OrderType ==
    IF KidsNamed(OrderElement, {"complexType"}) = <<>> THEN OrderElement
    ELSE KidsNamed(OrderElement, {"complexType"})[1]

\* a call of self.valid_children()
Call_valid_children ==
    /\ order_in # None
    /\ last' = Call("valid_children", "schema",
                    valid_children(OrderElement, OrderType, order_in))
    /\ UNCHANGED <<tree, order_in, edits>>

\* a call of _valid_children_parse_order on an order indicator that the
\* type holds
Call_valid_children_parse_order ==
    /\ order_in # None
    /\ \E ord_elem \in {OrderType.kids[k] : k \in 1..Len(OrderType.kids)} :
          /\ ord_elem.xs \in OrderNames
          /\ last' = Call("_valid_children_parse_order", "schema",
                          _valid_children_parse_order(ord_elem))
    /\ UNCHANGED <<tree, order_in, edits>>

\* a call of self.required_children()
Call_required_children ==
    /\ order_in # None
    /\ last' = Call("required_children", "schema",
                    required_children(OrderElement, OrderType, order_in))
    /\ UNCHANGED <<tree, order_in, edits>>

(***************************************************************************)
(* Schema lookup and class lookup as functions of the ancestor tags.       *)
(***************************************************************************)
\* the longest ancestor chain that is looked up
MaxChain == 3

\* the non-empty sequences over S of length at most longest
ChainsOver(S, longest) == UNION {[1..len -> S] : len \in 1..longest}

\* a call of self._lookup_element() on a node whose ancestor tags, root
\* first and itself last, are chain
Call_lookup_element(chain) ==
    /\ last' = Call("_lookup_element", chain, _lookup_element(chain))
    /\ UNCHANGED <<tree, order_in, edits>>

\* the element classes of the module
PyClass(name) == [py |-> "class", name |-> name]

\* _SpecialLookup.lookup(node_type, doc, ns, name)
_SpecialLookup_lookup(node_type) ==
    IF node_type = "comment" THEN PyClass("CommentBase")
    ELSE IF node_type = "PI" THEN PyClass("PIBase")
    ELSE None

\* _FomodLookup.lookup(doc, element); element is the tag of the element
\* followed by the tags of its parent and of the ancestors above it, and
\* getparent() of an element without parent is None
_FomodLookup_lookup(element) ==
    LET t == element[1]
    IN  IF t = "config" THEN PyClass("Root")
        ELSE IF t \in {"dependencies", "moduleDependencies", "visible"}
        THEN PyClass("Dependencies")
        ELSE IF t = "installStep" THEN PyClass("InstallStep")
        ELSE IF t = "group" THEN PyClass("Group")
        ELSE IF t = "plugin" THEN PyClass("Plugin")
        ELSE IF t = "dependencyType" THEN PyClass("TypeDependency")
        ELSE IF t = "pattern"
        THEN IF Len(element) < 3 THEN Raise("AttributeError")
             ELSE IF element[3] = "conditionalFileInstalls"
             THEN PyClass("InstallPattern")
             ELSE IF element[3] = "dependencyType"
             THEN PyClass("TypePattern")
             ELSE PyClass("FomodElement")
        ELSE PyClass("FomodElement")

\* the class that FOMOD_PARSER gives a node: the fallback lookup is asked
\* when the first one returns None
FOMOD_PARSER_lookup(node_type, element) ==
    IF _SpecialLookup_lookup(node_type) # None
    THEN _SpecialLookup_lookup(node_type)
    ELSE _FomodLookup_lookup(element)

\* the tags of the classified nodes
ClassTags ==
    {"config", "dependencies", "moduleDependencies", "visible",
     "installStep", "group", "plugin", "dependencyType", "pattern",
     "conditionalFileInstalls", "unused"}

\* the classified nodes: a tag, alone or below at most longest - 1
\* ancestors, whose tags are those that decide a class and one that does not
ClassInputs(longest) ==
    {<<t>> : t \in ClassTags}
    \cup {<<t>> \o up : t \in ClassTags,
                        up \in ChainsOver({"conditionalFileInstalls",
                                          "dependencyType", "unused"},
                                         longest - 1)}

\* a node of a document is given its class
Call_lookup(node_type, element) ==
    /\ last' = Call("lookup", [node_type |-> node_type, element |-> element],
                    FOMOD_PARSER_lookup(node_type, element))
    /\ UNCHANGED <<tree, order_in, edits>>

(***************************************************************************)
(* Removing, reordering and copying.  remove_child, can_reorder_child and  *)
(* reorder_child follow the documented behaviour of the editing calls: the *)
(* edit is made only after the matching can_ query passes, the comment of  *)
(* the node is carried along, and ValueError is raised otherwise.          *)
(***************************************************************************)
\* self.remove_child(child)
remove_child(s, child) ==
    LET answer == can_remove_child(s, child)
        gone == {child.id} \cup (IF comment[child.id] = 0 THEN {}
                                 ELSE {comment[child.id]})
    IN  /\ s \in Elements
        /\ edits < MaxEdits
        /\ edits' = edits + 1
        /\ IF IsRaise(answer)
           THEN /\ last' = Call("remove_child", child.is, answer)
                /\ UNCHANGED tree
           ELSE IF answer = False
           THEN /\ last' = Call("remove_child", child.is,
                                Raise("ValueError"))
                /\ UNCHANGED tree
           ELSE /\ children' = [children EXCEPT ![s] =
                       SelectSeq(@, LAMBDA k : k \notin gone)]
                /\ parent' = [n \in Nodes |->
                       IF n \in gone /\ parent[n] = s THEN 0 ELSE parent[n]]
                /\ last' = Call("remove_child", child.is, None)
                /\ UNCHANGED <<kind, tag, comment, text, schema_element,
                               schema_type, attrib>>

\* the largest offset that a child is moved by
MaxOffset == 2

Offsets == (0 - MaxOffset)..MaxOffset

\* self.can_reorder_child(child, offset): the child is relocated to its
\* index plus offset in the skeleton, which is validated again; an offset
\* that leaves the child list is illegal
can_reorder_child(s, child, offset) ==
    IF ~IsFomodElement(child) THEN Raise("TypeError")
    ELSE IF ~In(s, child) THEN Raise("ValueError")
    ELSE LET index == IndexOf(children[s], child.id)
             setup == _setup_shallow_schema_and_self(s)
         IN  IF IsRaise(setup) THEN setup
             ELSE LET kids == setup.self_copy.kids
                      rest == Remove(kids, kids[index])
                      to == index + offset
                      moved == SubSeq(rest, 1, to - 1) \o <<kids[index]>>
                                  \o SubSeq(rest, to, Len(rest))
                  IN  IF to < 1 \/ to > Len(kids) THEN False
                      ELSE PyBool(validate(setup.schema_elem,
                                      Bare([tag |-> tag[s], kids |-> moved])))

\* a call of self.can_reorder_child(child, offset) on the tree that the
\* parse or an edit has produced
Call_can_reorder_child(s, child, offset) ==
    /\ last.op # "can_reorder_child"
    /\ s \in Elements
    /\ last' = Call("can_reorder_child",
                    [child |-> child, offset |-> offset],
                    can_reorder_child(s, child, offset))
    /\ UNCHANGED <<tree, order_in, edits>>

\* self.reorder_child(child, offset)
reorder_child(s, child, offset) ==
    LET answer == can_reorder_child(s, child, offset)
        c == child.id
        carried == IF comment[c] = 0 THEN <<c>> ELSE <<comment[c], c>>
        rest == SelectSeq(children[s],
                          LAMBDA k : k # c /\ k # comment[c])
        to == IndexOf(children[s], c) + offset - (Len(carried) - 1)
    IN  /\ s \in Elements
        /\ edits < MaxEdits
        /\ edits' = edits + 1
        /\ last' = Call("reorder_child",
                        [child |-> child, offset |-> offset],
                        IF IsRaise(answer) THEN answer
                        ELSE IF answer = False THEN Raise("ValueError")
                        ELSE None)
        /\ IF answer = True
           THEN /\ children' = [children EXCEPT ![s] =
                       SubSeq(rest, 1, to - 1) \o carried
                          \o SubSeq(rest, to, Len(rest))]
                /\ UNCHANGED <<kind, tag, parent, comment, text,
                               schema_element, schema_type, attrib>>
           ELSE UNCHANGED tree

\* the nodes of the subtree of n, n first, in document order
RECURSIVE Subtree(_)
Subtree(n) ==
    <<n>> \o Flatten([k \in 1..Len(children[n]) |-> Subtree(children[n][k])])

\* _init of the element that __deepcopy__ creates for the node o: under
\* the parent of o, or by makeelement when o has no parent
CopyBinding(o) ==
    _lookup_element(IF parent[o] = 0 THEN <<tag[o]>>
                    ELSE Append(AncestorTags(parent[o]), tag[o]))

\* self.__deepcopy__(memo): every node of the subtree is copied, an
\* element as a sub-element of the parent of its original that is removed
\* again at once, or by makeelement.  _init binds the copy where it is
\* created and gives it the comment before it there; when _init raises, the
\* sub-element stays under that parent.  sub is the subtree, frees the
\* unused nodes and binding the outcome of _init for every element.
deepcopy(n) ==
    \E sub \in {Subtree(n)}, frees \in {SortedSeq(Free)},
       binding \in {[o \in Nodes |-> IF kind[o] = "element"
                                     THEN CopyBinding(o) ELSE None]} :
      \E failing \in {{k \in 1..Len(sub) : IsRaise(binding[sub[k]])}},
         news \in {{frees[k] : k \in 1..Min({Len(sub), Len(frees)})}},
         orig \in {[m \in Nodes |->
                      IF IndexOf(frees, m) \in 1..Len(sub)
                      THEN sub[IndexOf(frees, m)] ELSE m]} :
        /\ n \in Elements
        /\ edits < MaxEdits
        /\ edits' = edits + 1
        /\ Len(sub) <= Len(frees)
        /\ IF failing # {}
           THEN \E o \in {sub[Min(failing)]}, m \in {NewNode} :
                    /\ last' = Call("__deepcopy__", n, binding[o])
                    /\ IF parent[o] = 0 THEN UNCHANGED tree
                       ELSE /\ kind' = [kind EXCEPT ![m] = "element"]
                            /\ tag' = [tag EXCEPT ![m] = tag[o]]
                            /\ parent' = [parent EXCEPT ![m] = parent[o]]
                            /\ children' = [children EXCEPT
                                   ![parent[o]] = Append(@, m)]
                            /\ UNCHANGED <<comment, text, schema_element,
                                           schema_type, attrib>>
           ELSE /\ kind' = [m \in Nodes |->
                       IF m \in news THEN kind[orig[m]] ELSE kind[m]]
                /\ tag' = [m \in Nodes |->
                       IF m \in news THEN tag[orig[m]] ELSE tag[m]]
                /\ text' = [m \in Nodes |->
                       IF m \in news THEN text[orig[m]] ELSE text[m]]
                /\ attrib' = [m \in Nodes |->
                       IF m \in news THEN attrib[orig[m]] ELSE attrib[m]]
                /\ parent' = [m \in Nodes |->
                       IF m \notin news THEN parent[m]
                       ELSE IF orig[m] = n THEN 0
                       ELSE frees[IndexOf(sub, parent[orig[m]])]]
                /\ children' = [m \in Nodes |->
                       IF m \notin news THEN children[m]
                       ELSE [k \in 1..Len(children[orig[m]]) |->
                                frees[IndexOf(sub, children[orig[m]][k])]]]
                /\ comment' = [m \in Nodes |->
                       IF m \notin news THEN comment[m]
                       ELSE IF kind[orig[m]] # "element"
                               \/ parent[orig[m]] = 0 THEN 0
                       ELSE PreviousComment(children[parent[orig[m]]])]
                /\ schema_element' = [m \in Nodes |->
                       IF m \in news /\ kind[orig[m]] = "element"
                       THEN binding[orig[m]].holder
                       ELSE schema_element[m]]
                /\ schema_type' = [m \in Nodes |->
                       IF m \in news /\ kind[orig[m]] = "element"
                       THEN binding[orig[m]].type
                       ELSE schema_type[m]]
                /\ last' = Call("__deepcopy__", n,
                                [py |-> "FomodElement",
                                 id |-> frees[IndexOf(sub, n)]])

(***************************************************************************)
(* Initial documents: parsed, grammar-valid, every node bound by _init.    *)
(***************************************************************************)
\* each document lists, per node, its tag and its parent
Documents ==
    { << [tag |-> "r", parent |-> 0], [tag |-> "a", parent |-> 1],
         [tag |-> "b", parent |-> 1] >>,
      << [tag |-> "r", parent |-> 0], [tag |-> "a", parent |-> 1],
         [tag |-> "b", parent |-> 1], [tag |-> "c", parent |-> 2] >> }

RECURSIVE DocChain(_, _)
DocChain(doc, n) ==
    IF doc[n].parent = 0 THEN <<doc[n].tag>>
    ELSE Append(DocChain(doc, doc[n].parent), doc[n].tag)

\* the state after parsing one of the documents docs
ParsedFrom(docs) ==
    \E doc \in docs :
        /\ kind = [n \in Nodes |-> IF n <= Len(doc) THEN "element" ELSE "free"]
        /\ tag = [n \in Nodes |-> IF n <= Len(doc) THEN doc[n].tag ELSE ""]
        /\ parent = [n \in Nodes |-> IF n <= Len(doc) THEN doc[n].parent ELSE 0]
        /\ children = [n \in Nodes |->
              SortedSeq({k \in 1..Len(doc) : doc[k].parent = n})]
        /\ comment = [n \in Nodes |-> 0]
        /\ text = [n \in Nodes |-> ""]
        /\ schema_element = [n \in Nodes |->
              IF n <= Len(doc) THEN _lookup_element(DocChain(doc, n)).holder
              ELSE NoPath]
        /\ schema_type = [n \in Nodes |->
              IF n <= Len(doc) THEN _lookup_element(DocChain(doc, n)).type
              ELSE NoPath]
        /\ last = Call("parse", "str", None)
        /\ edits = 0

Parsed == ParsedFrom(Documents)

\* no attribute is given to a node of the documents of the child interface
Init ==
    /\ Parsed
    /\ attrib = [n \in Nodes |-> [a \in AttrNames |-> None]]
    /\ order_in = None

Next ==
    \/ \E s \in Nodes, child \in TagArgs \cup NodeArgs :
          add_child(s, child) /\ UNCHANGED order_in
    \/ \E s \in Nodes, t \in Tags :
          Call_find_possible_index(s, t) /\ UNCHANGED order_in
    \/ \E s \in Nodes, child \in TagArgs \cup NodeArgs :
          Call_can_add_child(s, child) /\ UNCHANGED order_in
    \/ \E s \in Nodes, child \in NodeArgs :
          Call_can_remove_child(s, child) /\ UNCHANGED order_in
    \/ \E s \in Nodes, old_child \in NodeArgs, new_child \in NodeArgs :
          Call_can_replace_child(s, old_child, new_child)
             /\ UNCHANGED order_in
    \/ \E s \in Nodes, child \in NodeArgs, new_parent \in NodeArgs :
          Call_can_copy_child(s, child, new_parent) /\ UNCHANGED order_in
    \/ \E s \in Nodes, child \in NodeArgs, new_parent \in NodeArgs :
          Call_can_move_child(s, child, new_parent) /\ UNCHANGED order_in
    \/ \E n \in Nodes, t \in TextArgs :
          set_comment(n, t) /\ UNCHANGED order_in

Spec == Init /\ [][Next]_vars

\* the attribute interface on a parsed document
NextAttr ==
    \/ \E n \in Nodes, name \in AttrNames, value \in AttrValues :
          set_attribute(n, name, value)
    \/ \E n \in Nodes, name \in AttrNames : Call_get_attribute(n, name)

\* the parsed root carries no attribute, or the attribute "q" that the
\* schema does not declare
InitAttr ==
    /\ Parsed
    /\ \E v \in {None, PyStr("x")} :
          attrib = [n \in Nodes |-> [a \in AttrNames |->
                       IF n = 1 /\ a = "q" THEN v ELSE None]]
    /\ order_in = None

SpecAttr == InitAttr /\ [][NextAttr]_vars

\* the lookups made when a node is created
NextLookup ==
    \/ \E chain \in ChainsOver({"r", "a", "b", "c", "y", "g", "z"}, MaxChain) :
          Call_lookup_element(chain)
    \/ \E node_type \in {"element", "comment", "PI"},
          element \in ClassInputs(MaxChain) :
          Call_lookup(node_type, element)

SpecLookup == Init /\ [][NextLookup]_vars

\* one of the documents that are edited by removing, reordering and copying
InitEdit ==
    /\ ParsedFrom(
      { << [tag |-> "y", parent |-> 0], [tag |-> "a", parent |-> 1] >>,
        << [tag |-> "y", parent |-> 0], [tag |-> "a", parent |-> 1],
           [tag |-> "b", parent |-> 1] >>,
        << [tag |-> "y", parent |-> 0], [tag |-> "a", parent |-> 1],
           [tag |-> "b", parent |-> 1], [tag |-> "a", parent |-> 1] >>,
        << [tag |-> "r", parent |-> 0], [tag |-> "a", parent |-> 1],
           [tag |-> "b", parent |-> 1] >> })
    /\ attrib = [n \in Nodes |-> [a \in AttrNames |-> None]]
    /\ order_in = None

NextEdit ==
    \/ \E n \in Nodes, t \in TextArgs :
          set_comment(n, t) /\ UNCHANGED order_in
    \/ \E s \in Nodes, child \in NodeArgs :
          remove_child(s, child) /\ UNCHANGED order_in
    \/ \E s \in Nodes, child \in NodeArgs, offset \in Offsets :
          Call_can_reorder_child(s, child, offset)
    \/ \E s \in Nodes, child \in NodeArgs, offset \in Offsets :
          reorder_child(s, child, offset) /\ UNCHANGED order_in
    \/ \E n \in Nodes : deepcopy(n) /\ UNCHANGED order_in

SpecEdit == InitEdit /\ [][NextEdit]_vars

\* the content-model interface: the calls read the schema order_in
NextOrder ==
    \/ Call_valid_children
    \/ Call_valid_children_parse_order
    \/ Call_required_children

\* a document root bound in one of the schemas of OrderInputs
InitOrder ==
    /\ Parsed
    /\ attrib = [n \in Nodes |-> [a \in AttrNames |-> None]]
    /\ order_in \in OrderInputs(MaxMembers)

SpecOrder == InitOrder /\ [][NextOrder]_vars

TypeOK ==
    /\ kind \in [Nodes -> {"free", "element", "comment"}]
    /\ parent \in [Nodes -> 0..MaxNodes]
    /\ comment \in [Nodes -> 0..MaxNodes]

(***************************************************************************)
(* Reference notions used to state the claims                              *)
(***************************************************************************)
\* a node that holds a schema binding
Bound(n) == n \in Elements /\ schema_element[n] # NoPath

\* the element children of a node, in order
ElementKids(n) == SelectSeq(children[n], LAMBDA c : kind[c] = "element")

\* the structural skeleton of the design: one bare tag per element child
SkeletonTags(n) == TagsOf(ElementKids(n))

\* seq with x put at Python index i (0..Len(seq))
InsertAt(seq, i, x) == SubSeq(seq, 1, i) \o <<x>> \o SubSeq(seq, i + 1, Len(seq))

\* is tags a valid child-tag sequence for the node n under its binding
Validates(n, tags) ==
    validate(ShallowSchema(n), [tag |-> tag[n], kids |-> tags])

\* the Python indexes at which a bare element t validates among the
\* children of n; index Len designates the append position
ValidPositions(n, t) ==
    {i \in 0..Len(SkeletonTags(n)) :
        Validates(n, InsertAt(SkeletonTags(n), i, t))}

\* rightmost-first placement: append, else the greatest index, else None
RightmostFirst(n, t) ==
    LET len == Len(SkeletonTags(n))
        inner == ValidPositions(n, t) \ {len}
    IN  IF len \in ValidPositions(n, t) THEN PyInt(-1)
        ELSE IF inner # {} THEN PyInt(Max(inner))
        ELSE None

\* the tag an argument stands for
TagOf(arg) == IF IsStr(arg) THEN arg.tag ELSE tag[arg.id]

\* is the child-tag sequence of n accepted by the content model that the
\* schema gives the node at its place in the document
GrammarValid(n) ==
    LET lookup == _lookup_element(AncestorTags(n))
    IN  /\ ~IsRaise(lookup)
        /\ DeclAccepts(FOMOD_SCHEMA_TREE, SchemaAt(lookup.holder),
                       SkeletonTags(n))

(***************************************************************************)
(* Claims                                                                  *)
(***************************************************************************)

\* C1: starting from a tree in which every node's child-tag sequence is
\* accepted by its content model, after any sequence of successful
\* add_child calls (tag or node argument) every node's child-tag sequence
\* is still accepted by its content model.
C1_ValidityPreserved == \A n \in Elements : GrammarValid(n)

\* the tree after an add_child(s, t) that put the new node at the position
\* trial validation found and left every other child where it was
AddedAtFound(s, t) ==
    LET m == NewNode
        found == _find_possible_index(s, t)
        at == IF found.i = -1 THEN Len(children[s]) ELSE found.i
    IN  /\ last'.result = None
        /\ kind' = [kind EXCEPT ![m] = "element"]
        /\ tag' = [tag EXCEPT ![m] = t]
        /\ children' = [children EXCEPT ![s] = InsertAt(@, at, m)]

\* C2: for every node and every tag T for which can_add_child(T) is true,
\* an immediately following add_child(T) succeeds and creates exactly one
\* new child with tag T at the position found by trial validation, all
\* previously existing children keeping their relative order.
C2_AddChildAtFoundIndex ==
    [][\A s \in Nodes, t \in Tags :
          (/\ last'.op = "add_child"
           /\ s \in Elements
           /\ can_add_child(s, StrArg(t)) = True
           /\ add_child(s, StrArg(t))) => AddedAtFound(s, t)]_vars

\* C3: _find_possible_index reports 'append' when appending the test
\* element validates, otherwise the greatest index 0..n-1 at which
\* inserting it validates, and 'no position' exactly when no position
\* validates.
C3_RightmostFirst ==
    \A s \in Nodes, t \in Tags :
        Bound(s) => _find_possible_index(s, t) = RightmostFirst(s, t)

\* C4: when no position validates for the tag or node, add_child raises
\* ValueError and the tree is exactly as before; when the argument is
\* neither a string nor a node it raises TypeError with the tree likewise
\* unchanged.
C4_AddChildAtomic ==
    [][\A s \in Nodes, child \in TagArgs \cup NodeArgs :
          (last'.op = "add_child" /\ Bound(s) /\ add_child(s, child)) =>
             /\ (~IsStr(child) /\ ~IsFomodElement(child)) =>
                   (last'.result = Raise("TypeError") /\ UNCHANGED tree)
             /\ ((IsStr(child) \/ IsFomodElement(child))
                    /\ ValidPositions(s, TagOf(child)) = {}) =>
                   (last'.result = Raise("ValueError") /\ UNCHANGED tree)]_vars

\* C5: every can_* query is read-only: whatever it returns or raises, the
\* live tree (children order, comments, parent links and schema bindings of
\* every node) is the same before and after the call.
C5_QueriesReadOnly == [][last'.op \in CanOps => UNCHANGED tree]_vars

\* C5 witness: a query that found a trial edit valid has returned
C5_QueryAnswered ==
    /\ last.op = "can_remove_child"
    /\ last.result = True

\* C6: for a child c of s and a destination p, can_move_child(c, p) is true
\* exactly when p.can_add_child(c) and s.can_remove_child(c) are true, and
\* can_copy_child(c, p) is true exactly when p.can_add_child(c) is true.
C6_MoveAndCopy ==
    last.op \in {"can_copy_child", "can_move_child"} =>
        \A c \in Elements, p \in Elements :
            parent[c] # 0 =>
               LET s == parent[c]
                   added == can_add_child(p, NodeArg(c)) = True
               IN  /\ (can_move_child(s, NodeArg(c), NodeArg(p)) = True)
                         <=> (added /\ can_remove_child(s, NodeArg(c)) = True)
                   /\ (can_copy_child(s, NodeArg(c), NodeArg(p)) = True)
                         <=> added

\* C6 witness: a can_move_child call has answered false for a child that
\* can be copied to a destination but cannot be removed from its parent
C6_CopyWithoutMove ==
    /\ last.op = "can_move_child"
    /\ last.result = False
    /\ \E s \in Elements, c \in Elements, p \in Elements :
          /\ parent[c] = s
          /\ can_copy_child(s, NodeArg(c), NodeArg(p)) = True
          /\ can_remove_child(s, NodeArg(c)) = False
          /\ can_move_child(s, NodeArg(c), NodeArg(p)) = False

\* the skeleton of s with the bare element at the place of old substituted
\* by a bare element with the tag of new
Substituted(s, old, new) ==
    [SkeletonTags(s) EXCEPT ![IndexOf(ElementKids(s), old)] = tag[new]]

\* C7: can_replace_child(old, new), for old a child of the node and new any
\* node, returns the result of validating the skeleton in which the bare
\* element at old's index is substituted by one with new's tag.
C7_ReplaceAnyNode ==
    \A s \in Elements, old \in Elements, new \in Elements :
        (Bound(s) /\ parent[old] = s) =>
            can_replace_child(s, NodeArg(old), NodeArg(new))
                = PyBool(Validates(s, Substituted(s, old, new)))

\* C8: a can_* query never raises for an edit that is merely impossible:
\* for arguments of the right kind every can_* call terminates with a
\* boolean, and the only error a can_* query raises is the wrong-kind
\* error.
C8_QueriesNeverRaise ==
    last.op \in CanOps =>
        /\ last.kinds # "other" => last.result \in {True, False}
        /\ IsRaise(last.result) => last.result = Raise("TypeError")

\* C9: add_child and every can_* query raise TypeError whenever an argument
\* is of the wrong kind (any one of the node arguments, not only all of
\* them), before any other error is raised.
C9_WrongKindRejected ==
    (last.op \in CanOps \cup {"add_child"} /\ last.kinds = "other")
        => last.result = Raise("TypeError")

\* C10: can_add_child(n) for a node n attached under a parent P is true
\* only if a position validates in the destination and P.can_remove_child(n)
\* is true; for a tag string it is true exactly when a position validates.
C10_AddNeedsRemovable ==
    /\ \A s \in Elements, n \in Elements :
          (Bound(s) /\ parent[n] # 0 /\ ~IsAncestorOrSame(n, s)
              /\ can_add_child(s, NodeArg(n)) = True) =>
             /\ ValidPositions(s, tag[n]) # {}
             /\ can_remove_child(parent[n], NodeArg(n)) = True
    /\ \A s \in Elements, t \in Tags :
          Bound(s) =>
             ((can_add_child(s, StrArg(t)) = True)
                 <=> ValidPositions(s, t) # {})

\* does the comment that n owns sit immediately before n under n's parent
CommentPrecedes(n) ==
    LET p == parent[n]
        c == comment[n]
    IN  /\ p # 0
        /\ parent[c] = p
        /\ Contains(children[p], c)
        /\ IndexOf(children[p], c) + 1 = IndexOf(children[p], n)

\* C11: in every reachable state every node that owns a comment has that
\* comment as its immediate preceding sibling under the same parent, and
\* each comment is owned by at most one node; so the place a node was moved
\* from keeps neither the node nor its comment.
C11_CommentAffinity ==
    /\ \A n \in Elements : comment[n] # 0 => CommentPrecedes(n)
    /\ \A n \in Elements, m \in Elements :
          (comment[n] # 0 /\ comment[n] = comment[m]) => n = m

\* C12: setting the comment of a node to a text t inserts exactly one new
\* comment with text t immediately before the node when it owns none, and
\* otherwise changes only the text of the owned comment; reading the comment
\* afterwards returns t.
C12_CommentSet ==
    [][\A n \in Nodes, t \in Texts :
          (last'.op = "comment.setter" /\ set_comment(n, PyStr(t))) =>
             /\ comment_get(n)' = t
             /\ IF comment[n] = 0
                THEN LET m == comment'[n]
                         p == parent[n]
                     IN  /\ m \in Free
                         /\ kind'[m] = "comment"
                         /\ children'[p] = InsertAt(children[p],
                                IndexOf(children[p], n) - 1, m)
                         /\ \A o \in Nodes \ {p} : children'[o] = children[o]
                         /\ \A o \in Nodes \ {n} : comment'[o] = comment[o]
                         /\ \A o \in Nodes \ {m} :
                               kind'[o] = kind[o] /\ text'[o] = text[o]
                ELSE /\ UNCHANGED <<kind, children, parent, comment>>
                     /\ \A o \in Nodes \ {comment[n]} : text'[o] = text[o]]_vars

\* C12 witness: the setter has run on a node that owned no comment and on a
\* node that owned one: a comment with the text sits before its owner
C12_CommentOwned ==
    /\ last.op = "comment.setter"
    /\ last.kinds = "str"
    /\ edits = 2
    /\ \E n \in Elements :
          comment[n] # 0 /\ CommentPrecedes(n) /\ comment_get(n) = "t"

\* C13: setting the comment of a node to None never leaves the node owning a
\* comment: an owned comment is removed from the tree and no comment is
\* created.
C13_CommentCleared ==
    [][\A n \in Nodes :
          (last'.op = "comment.setter" /\ set_comment(n, None)) =>
             /\ comment'[n] = 0
             /\ \A o \in Nodes : kind[o] = "free" => kind'[o] = "free"
             /\ comment[n] # 0 =>
                   \A p \in Nodes : ~Contains(children'[p], comment[n])]_vars

\* C14: the stored binding (holder declaration, content type) of every node
\* equals what the schema lookup returns for its present ancestor chain, also
\* after an add_child that relocated the node.
C14_BindingFresh ==
    \A n \in Elements :
        LET lookup == _lookup_element(AncestorTags(n))
        IN  /\ ~IsRaise(lookup)
            /\ schema_element[n] = lookup.holder
            /\ schema_type[n] = lookup.type

\* the attribute declarations that the schema gives the content type of n
Declarations(n) == AttrList(SchemaAt(schema_type[n]))

\* the schema-recognized attribute names of n
RecognizedNames(n) ==
    {Declarations(n)[k].name : k \in 1..Len(Declarations(n))}

\* the first declaration of the attribute name of n
DeclOf(n, name) ==
    Declarations(n)[Min({k \in 1..Len(Declarations(n)) :
                            Declarations(n)[k].name = name})]

\* the declared default of a recognized attribute, the empty string when
\* none is declared
DeclaredDefault(n, name) ==
    IF Has(DeclOf(n, name), "default") THEN DeclOf(n, name).default ELSE ""

\* the values that the enumeration restriction of a recognized attribute
\* lists; empty when it has no such restriction
EnumValues(n, name) ==
    LET decl == DeclOf(n, name)
        found == RestrictionOf(decl)
    IN  IF (Has(decl, "type") /\ IsBuiltin(decl.type)) \/ found = <<>>
        THEN {}
        ELSE {k.value : k \in {found[1].kids[i] : i \in 1..Len(found[1].kids)}}

\* the declared primitive type of a recognized attribute
DeclaredType(n, name) ==
    LET decl == DeclOf(n, name)
    IN  IF Has(decl, "type") /\ IsBuiltin(decl.type) THEN decl.type
        ELSE RestrictionOf(decl)[1].base

\* is the value a literal of the primitive type
ValidLiteral(type, value) == type = "xs:integer" => value \in {"7"}

\* C15: get_attribute returns, for a schema-recognized name, the document
\* value if present, else the declared default, else the empty string; for
\* a name that is not schema-recognized it fails with ValueError; and it
\* never modifies the node.
C15_GetAttribute ==
    /\ [](\A n \in Elements, name \in AttrNames :
            get_attribute(n, name) =
               IF name \in RecognizedNames(n)
               THEN IF attrib[n][name] # None THEN attrib[n][name]
                    ELSE PyStr(DeclaredDefault(n, name))
               ELSE Raise("ValueError"))
    /\ [][last'.op = "get_attribute" => UNCHANGED tree]_vars

C17_TypeChecked ==
    [][\A n \in Nodes, name \in AttrNames, value \in AttrValues :
          (/\ last'.op = "set_attribute"
           /\ last'.kinds = name
           /\ set_attribute(n, name, value)
           /\ name \in RecognizedNames(n)
           /\ ~ValidLiteral(DeclaredType(n, name), value)) =>
             (last'.result = Raise("ValueError") /\ attrib' = attrib)]_vars

\* the pairs with every count multiplied by m
Scaled(pairs, m) ==
    [k \in 1..Len(pairs) |-> <<pairs[k][1], PyInt(pairs[k][2].i * m)>>]

\* the reference policy of required children on a descriptor tree: a leaf
\* contributes (tag, min_occ) iff min_occ > 0; a choice what its first
\* alternative contributes; a sequence or all the contributions of its
\* members with min_occ > 0 in order; a group multiplies by its min_occ
RECURSIVE Contribution(_)
Contribution(node) ==
    IF node.py = "_ChildElement"
    THEN IF node.min_occ.i > 0 THEN << <<node.tag, node.min_occ>> >>
         ELSE <<>>
    ELSE LET members == node.element_list
             body == IF node.type = "choice"
                     THEN IF members = <<>> THEN <<>>
                          ELSE Contribution(members[1])
                     ELSE Flatten([k \in 1..Len(members) |->
                              IF members[k].min_occ.i > 0
                              THEN Contribution(members[k]) ELSE <<>>])
         IN  Scaled(body, node.min_occ.i)

\* the descriptor tree of the bound element; None without content model
ContentModel == valid_children(OrderElement, OrderType, order_in)

\* C18: required_children equals the reference policy on every content
\* model: [] for an element without content model, and otherwise the
\* contribution of the descriptor tree (first alternative of a choice,
\* members with min_occ > 0 of a sequence or all, counts multiplied by the
\* min_occ of every enclosing group).
C18_RequiredChildren ==
    (last.op = "required_children" /\ ~IsRaise(ContentModel)) =>
        last.result = IF ContentModel = None THEN PyList(<<>>)
                      ELSE PyList(Contribution(ContentModel))

\* does the schema node, or a node below it, have the tag name
RECURSIVE Mentions(_, _)
Mentions(e, name) ==
    \/ e.xs = name
    \/ \E k \in 1..Len(e.kids) : Mentions(e.kids[k], name)

\* the exact mirror of an order indicator: its kind and declared bounds,
\* and one entry per declared member in declaration order; an element or
\* wildcard is a slot, a nested order indicator a nested group, a group
\* reference the mirror of the order indicator of the group
RECURSIVE Mirror(_, _)
Mirror(ord_elem, root_elem) ==
    LET declared == KidsNamed(ord_elem, {"element", "any", "group", "all",
                                         "sequence", "choice"})
        lo(e) == IF Has(e, "minOccurs") THEN PyInt(int(e.minOccurs))
                 ELSE PyInt(1)
        hi(e) == IF ~Has(e, "maxOccurs") THEN PyInt(1)
                 ELSE IF e.maxOccurs = "unbounded" THEN None
                 ELSE PyInt(int(e.maxOccurs))
        entry(e) ==
            CASE e.xs = "element" ->
                    _ChildElement(PyStr(e.name), hi(e), lo(e))
              [] e.xs = "any" -> _ChildElement(None, hi(e), lo(e))
              [] e.xs = "group" -> Mirror(GroupOrder(e, root_elem), root_elem)
              [] OTHER -> Mirror(e, root_elem)
    IN  _OrderIndicator(ord_elem.xs,
                        [k \in 1..Len(declared) |-> entry(declared[k])],
                        hi(ord_elem), lo(ord_elem))

\* the order indicator or group reference that the type of the bound
\* element holds first
OrderTop == KidsNamed(OrderType, {"group", "all", "sequence", "choice"})[1]

\* C19: the content-model parser mirrors the schema exactly: the kind of
\* the order indicator, its declared minOccurs and maxOccurs (default 1,
\* None when unbounded), and one entry per declared member in declaration
\* order, a slot (tag, maxOcc, minOcc) per element and a nested group per
\* nested order indicator.
C19_ParserMirrors ==
    (last.op = "_valid_children_parse_order"
        /\ ~Mentions(OrderTop, "group")) =>
        last.result = Mirror(OrderTop, order_in)

\* C20: group references are expanded wherever they occur: at the top of a
\* content type and nested in an order indicator, the parsed tree holds the
\* order indicator of the referenced group with its members.
C20_GroupsExpanded ==
    (last.op = "valid_children" /\ ~IsRaise(last.result)
        /\ last.result # None
        /\ Mentions(OrderTop, "group") /\ ~Mentions(OrderTop, "any")) =>
        last.result =
            Mirror(IF OrderTop.xs = "group"
                   THEN GroupOrder(OrderTop, order_in) ELSE OrderTop,
                   order_in)

\* the first declaration named t in the order indicators at the paths, each
\* searched through all its nested order indicators; NoPath when none
RECURSIVE DeepFind(_, _)
DeepFind(paths, t) ==
    IF paths = <<>> THEN NoPath
    ELSE LET here == FindElementDecl(paths[1], t)
             below == DeepFind(OrderKids(paths[1]), t)
         IN  IF here # NoPath THEN here
             ELSE IF below # NoPath THEN below
             ELSE DeepFind(Tail(paths), t)

\* the declaration named t in a scope: (a) a direct declaration, (b) one in
\* the order indicator of a named group referenced in the scope, (c) one in
\* an order indicator of the scope; NoPath when none
ScopeDecl(current, t) ==
    LET direct == FindElementDecl(current, t)
        refs == KidsWhere(SchemaAt(current),
                          LAMBDA k : k.xs = "group" /\ Has(k, "ref"))
        groups == {i \in 1..Len(FOMOD_SCHEMA_TREE.kids) :
                     LET k == FOMOD_SCHEMA_TREE.kids[i]
                     IN  /\ k.xs = "group"
                         /\ \E j \in refs :
                               SchemaAt(current).kids[j].ref = k.name}
        grouped == DeepFind(Flatten([k \in 1..Len(SortedSeq(groups)) |->
                                OrderKids(<<SortedSeq(groups)[k]>>)]), t)
        ordered == DeepFind(OrderKids(current), t)
    IN  IF direct # NoPath THEN direct
        ELSE IF grouped # NoPath THEN grouped
        ELSE ordered

\* the binding of an ancestor chain, level by level; NoPath as holder when
\* some level has no declaration (the chain is off-grammar)
RECURSIVE Binding(_, _, _, _)
Binding(chain, k, current, holder) ==
    IF k > Len(chain)
    THEN [py |-> "tuple", holder |-> holder, type |-> current]
    ELSE IF current = NoPath \/ ScopeDecl(current, chain[k]) = NoPath
    THEN [py |-> "tuple", holder |-> NoPath, type |-> NoPath]
    ELSE Binding(chain, k + 1, NextScope(ScopeDecl(current, chain[k])),
                 ScopeDecl(current, chain[k]))

OnGrammar(chain) == Binding(chain, 1, <<>>, NoPath).holder # NoPath

\* C21: for a node whose ancestor chain is on-grammar, schema lookup
\* returns the declaration found at each level by checking direct
\* declarations, then the order indicator of a referenced group, then the
\* order indicators of the scope, each through all nested order indicators,
\* and the content type that follows the last declaration.
C21_LookupResolves ==
    (last.op = "_lookup_element" /\ OnGrammar(last.kinds)) =>
        last.result = Binding(last.kinds, 1, <<>>, NoPath)

\* C22: for a node whose ancestor chain is off-grammar, schema lookup
\* fails with the lookup error (ValueError), not with a binding or with
\* another error.
C22_LookupFails ==
    (last.op = "_lookup_element" /\ ~OnGrammar(last.kinds)) =>
        last.result = Raise("ValueError")

\* the role of a node: a function of its tag and of the tag of its
\* grandparent, None when it has no grandparent
Role(t, grandparent) ==
    CASE t = "config" -> "Root"
      [] t \in {"dependencies", "moduleDependencies", "visible"} ->
            "Dependencies"
      [] t = "installStep" -> "InstallStep"
      [] t = "group" -> "Group"
      [] t = "plugin" -> "Plugin"
      [] t = "dependencyType" -> "TypeDependency"
      [] t = "pattern" /\ grandparent = PyStr("conditionalFileInstalls") ->
            "InstallPattern"
      [] t = "pattern" /\ grandparent = PyStr("dependencyType") ->
            "TypePattern"
      [] OTHER -> "FomodElement"

\* C23: node classification is total: every element is given the role of
\* its tag, a pattern the role that its grandparent selects and the generic
\* role when it has another grandparent or none; comments and processing
\* instructions are given no node role.
C23_Classification ==
    last.op = "lookup" =>
        LET element == last.kinds.element
            grandparent == IF Len(element) < 3 THEN None
                           ELSE PyStr(element[3])
        IN  IF last.kinds.node_type = "comment"
            THEN last.result = PyClass("CommentBase")
            ELSE IF last.kinds.node_type = "PI"
            THEN last.result = PyClass("PIBase")
            ELSE last.result = PyClass(Role(element[1], grandparent))

\* C24: valid_children never raises: it returns None for a leaf (the
\* holder is its own content type) and for a content type that declares no
\* group and no order indicator, and the parsed descriptor otherwise.
C24_ValidChildrenTotal ==
    last.op = "valid_children" =>
        IF \/ OrderType = OrderElement
           \/ KidsNamed(OrderType, {"group"} \cup OrderNames) = <<>>
        THEN last.result = None
        ELSE last.result.py = "_OrderIndicator"

\* C25: remove_child(child) removes the child together with its owned
\* comment when can_remove_child(child) is true, so that the parent holds
\* neither afterwards; otherwise it raises ValueError and leaves the tree
\* unchanged.
C25_RemoveChild ==
    [][\A s, c \in Nodes :
          (/\ last'.op = "remove_child"
           /\ kind[s] = "element" /\ kind[c] = "element"
           /\ remove_child(s, NodeArg(c))) =>
             IF can_remove_child(s, NodeArg(c)) = True
             THEN /\ ~Contains(children'[s], c)
                  /\ comment[c] # 0 => ~Contains(children'[s], comment[c])
             ELSE /\ last'.result = Raise("ValueError")
                  /\ UNCHANGED tree]_vars

\* the element children of s are mutually optional and repeatable: every
\* sequence of their tags, up to their number, is valid content of s
MutuallyOptional(s) ==
    LET tags == {tag[ElementKids(s)[k]] : k \in 1..Len(ElementKids(s))}
    IN  /\ schema_element[s] # NoPath
        /\ \A seq \in UNION {[1..len -> tags] :
                               len \in 0..Len(ElementKids(s))} :
              DeclAccepts(FOMOD_SCHEMA_TREE, SchemaAt(schema_element[s]), seq)

\* C26: for a node with N mutually optional repeatable children and a
\* child at index i, can_reorder_child(child, offset) is true for every
\* offset in -i..N-1-i and false for every other offset; reorder_child
\* relocates the child, with its comment, only when can_reorder_child is
\* true and raises ValueError otherwise.
C26_ReorderBounds ==
    /\ [](\A s, c \in Elements, offset \in Offsets :
            (parent[c] = s /\ MutuallyOptional(s)) =>
               LET i == IndexOf(ElementKids(s), c) - 1
                   N == Len(ElementKids(s))
               IN  can_reorder_child(s, NodeArg(c), offset) =
                      PyBool(0 - i <= offset /\ offset <= N - 1 - i))
    /\ [][\A s, c \in Nodes, offset \in Offsets :
            (/\ last'.op = "reorder_child"
             /\ kind[s] = "element" /\ kind[c] = "element"
             /\ reorder_child(s, NodeArg(c), offset)) =>
               IF can_reorder_child(s, NodeArg(c), offset) = True
               THEN /\ last'.result = None
                    /\ IndexOf(ElementKids(s)', c) =
                          IndexOf(ElementKids(s), c) + offset
                    /\ comment[c] # 0 => CommentPrecedes(c)'
               ELSE /\ last'.result = Raise("ValueError")
                    /\ UNCHANGED tree]_vars

\* are the subtrees of n and of m equal in kind, tag, attributes, text and,
\* in the same order, children, in the tree given by the five functions
RECURSIVE SameShape(_, _, _, _, _, _, _)
SameShape(kd, tg, tx, at, ch, n, m) ==
    /\ kd[n] = kd[m] /\ tg[n] = tg[m] /\ tx[n] = tx[m] /\ at[n] = at[m]
    /\ Len(ch[n]) = Len(ch[m])
    /\ \A k \in 1..Len(ch[n]) :
          SameShape(kd, tg, tx, at, ch, ch[n][k], ch[m][k])

\* C27: copying a node returns a detached node equal to the original in
\* tag, attributes, text and children, with a copy of the owned comment;
\* the nodes that existed before the copy are exactly as they were.
C27_CopyEqual ==
    [][\A n \in Nodes :
          (/\ last'.op = "__deepcopy__" /\ last'.kinds = n
           /\ deepcopy(n)) =>
             /\ ~IsRaise(last'.result)
             /\ LET m == last'.result.id
                IN  /\ m # n /\ kind[m] = "free" /\ parent'[m] = 0
                    /\ SameShape(kind', tag', text', attrib', children',
                                 n, m)
                    /\ comment[n] # 0 =>
                          /\ comment'[m] # 0
                          /\ comment'[m] # comment[n]
                          /\ text'[comment'[m]] = text[comment[n]]
             /\ \A o \in Nodes : kind[o] # "free" =>
                   /\ kind'[o] = kind[o] /\ tag'[o] = tag[o]
                   /\ text'[o] = text[o] /\ attrib'[o] = attrib[o]
                   /\ children'[o] = children[o] /\ parent'[o] = parent[o]
                   /\ comment'[o] = comment[o]]_vars

\* C28: add_child with a node argument places the node at the position
\* trial validation found: as the last child of the destination when
\* appending validates, at index i when index i is found, every other child
\* of the destination staying where it was, so that the children are the
\* arrangement that was validated.
C28_NodePlacedAtFound ==
    [][\A s, c \in Nodes :
          (/\ last'.op = "add_child" /\ last'.result = None
           /\ s \in Elements /\ kind[c] = "element" /\ parent[c] # s
           /\ add_child(s, NodeArg(c))) =>
             LET found == _find_possible_index(s, tag[c])
                 at == IF found.i = -1 THEN Len(children[s]) ELSE found.i
             IN  /\ children'[s] = InsertAt(children[s], at, c)
                 /\ found.i = -1 => children'[s][Len(children'[s])] = c]_vars

\* C29: every (tag, count) pair that required_children returns has a count
\* of at least 1: a group whose own min_occ is 0, and a member reached only
\* through such a group, contributes no pair rather than a pair with
\* count 0.
C29_CountsPositive ==
    (last.op = "required_children" /\ ~IsRaise(last.result)) =>
        \A k \in 1..Len(last.result.items) : last.result.items[k][2].i >= 1

\* C30: the skeleton of trial validation is built for every bound node,
\* also when comments owned by its children stand between them: it holds
\* one bare element per element child, in the current order, and the index
\* at which can_remove_child and can_replace_child edit it designates the
\* same child as in the live tree.
C30_SkeletonBuilt ==
    \A n \in Nodes :
        Bound(n) =>
            LET setup == _setup_shallow_schema_and_self(n)
            IN  /\ ~IsRaise(setup)
                /\ Bare(setup.self_copy).kids = SkeletonTags(n)
                /\ \A c \in Elements :
                      parent[c] = n =>
                         IndexOf(children[n], c) = IndexOf(ElementKids(n), c)

====
